---- MODULE Spec2Model ----
(***************************************************************************)
(* Board engine and game controller of the Minesweeper game               *)
(* (src/game/map.js: classes Map and Game; src/game/ai.js: the opponent   *)
(* turn scaffolding).  Every handler of the page is one atomic action:    *)
(* JavaScript runs each event listener and each timer callback to         *)
(* completion.                                                            *)
(*                                                                         *)
(* A cell is the 4-element array of map.js line 62,                       *)
(*   [number, bomb, flag, covered], indexed 0..3 in the source and        *)
(* 1..4 here (getCell/setCell take the source's index i).                 *)
(***************************************************************************)
EXTENDS Integers, FiniteSets, Sequences, TLC

\* ---------------------------------------------------------------- bounds
\* Largest board width / height and largest bomb count createMap is given.
MaxW == 3
MaxH == 2
MaxBombs == 2

\* Largest board and bomb count of the runs that follow generateBombs draw
\* by draw (PlacementSpec).
MaxPlaceW == 3
MaxPlaceH == 3
MaxPlaceBombs == 3

\* What getCell returns outside the map (JavaScript's undefined): a value
\* that is neither 0 nor 1, so every === test of the source fails on it.
Undefined == -1

AIModes == {"easy", "medium", "hard"}
NoMode == "null"

VARIABLES
    map,         \* Game.map: [w, h, grid], grid[<<x, y>>] = <<number, bomb, flag, covered>>
    disabled,    \* DOM: disabled[<<x, y>>] = the button cell-x-y is disabled
    started,     \* Game.started
    dead,        \* Game.dead
    bombs,       \* Game.bombs
    flags,       \* Game.flags (flags remaining)
    status,      \* className set by map.js setStatus: "", "playing", "won", "lost"
    currentTurn, \* ai.js global
    aiMode,      \* ai.js global
    aiThinking,  \* ai.js global
    aiTimer,     \* pending timers of ai.js: "none", "think", "click", "turn"
    aiTarget,    \* the button the pending AI click is aimed at ({} when none)
    hung,        \* generateBombs is spinning: the page never handles another event
    call         \* PlacementSpec: the running call of generateBombs, {} when none

vars == <<map, disabled, started, dead, bombs, flags, status, currentTurn,
          aiMode, aiThinking, aiTimer, aiTarget, hung, call>>

\* The program state as one record, so that the methods below are operators
\* from state to state.
State ==
    [map |-> map, disabled |-> disabled, started |-> started, dead |-> dead,
     bombs |-> bombs, flags |-> flags, status |-> status,
     currentTurn |-> currentTurn, aiMode |-> aiMode, aiThinking |-> aiThinking,
     aiTimer |-> aiTimer, aiTarget |-> aiTarget, hung |-> hung]

SetState(s) ==
    /\ map' = s.map
    /\ disabled' = s.disabled
    /\ started' = s.started
    /\ dead' = s.dead
    /\ bombs' = s.bombs
    /\ flags' = s.flags
    /\ status' = s.status
    /\ currentTurn' = s.currentTurn
    /\ aiMode' = s.aiMode
    /\ aiThinking' = s.aiThinking
    /\ aiTimer' = s.aiTimer
    /\ aiTarget' = s.aiTarget
    /\ hung' = s.hung
    /\ call' = call

\* ------------------------------------------------------------ class Map
Cells(w, h) == (0 .. w - 1) \X (0 .. h - 1)

\* Map.constructor: every cell [0, 0, 0, 1].
NewMap(w, h) ==
    [w |-> w, h |-> h, grid |-> [c \in Cells(w, h) |-> <<0, 0, 0, 1>>]]

inMap(m, x, y) == x >= 0 /\ y >= 0 /\ x < m.w /\ y < m.h

\* getCell: undefined outside the map.  Its second guard, the lookup of the
\* button cell-x-y, fails for no cell of the map: initialize creates one
\* button per cell.
getCell(m, x, y, i) ==
    IF ~inMap(m, x, y) THEN Undefined ELSE m.grid[<<x, y>>][i + 1]

\* updateCell, as far as it changes state: it disables the button of an
\* unflagged, uncovered cell without a bomb (the three early returns).
updateCell(s, x, y) ==
    IF getCell(s.map, x, y, 2) = 1 THEN s
    ELSE IF getCell(s.map, x, y, 3) = 1 THEN s
    ELSE IF getCell(s.map, x, y, 1) = 1 THEN s
    ELSE [s EXCEPT !.disabled[<<x, y>>] = TRUE]

\* setCell: no-op outside the map, else write and updateCell.
setCell(s, x, y, i, v) ==
    IF ~inMap(s.map, x, y) THEN s
    ELSE updateCell([s EXCEPT !.map.grid[<<x, y>>][i + 1] = v], x, y)

\* updateMap: updateCell on every cell (each call touches its own button only).
updateMap(s) ==
    [s EXCEPT !.disabled =
        [c \in DOMAIN s.disabled |-> updateCell(s, c[1], c[2]).disabled[c]]]

\* Mutant of forbidden: only the clicked cell itself is kept free of bombs.
forbiddenStartOnly(m, startX, startY) ==
    {c \in {<<startX, startY>>} : inMap(m, c[1], c[2])}

\* generateBombs, lines 77-84: the forbidden set, clipped to the map.
forbidden(m, startX, startY) ==
    {c \in {<<startX + dx, startY + dy>> : dx \in -1 .. 1, dy \in -1 .. 1} :
        inMap(m, c[1], c[2])}

\* generateBombs, lines 96-108: one accepted draw.  The bomb index of (x, y)
\* is set, then the two loops add 1 to the number of every in-map cell of
\* the 3x3 block around (x, y); they do not skip dx = dy = 0, so the number
\* of (x, y) itself is raised too.  Each write goes through setCell, whose
\* updateCell disables the button of a written cell that is unflagged,
\* uncovered and without a bomb.
placeBomb(s, x, y) ==
    LET block == {d \in Cells(s.map.w, s.map.h) :
                     d[1] - x \in -1 .. 1 /\ d[2] - y \in -1 .. 1}
        grid == [d \in Cells(s.map.w, s.map.h) |->
                    <<s.map.grid[d][1] + (IF d \in block THEN 1 ELSE 0),
                      IF d = <<x, y>> THEN 1 ELSE s.map.grid[d][2],
                      s.map.grid[d][3],
                      s.map.grid[d][4]>>]
    IN  [s EXCEPT !.map.grid = grid,
                  !.disabled = [d \in DOMAIN s.disabled |->
                                   IF /\ d \in block
                                      /\ grid[d][3] # 1
                                      /\ grid[d][4] # 1
                                      /\ grid[d][2] # 1
                                   THEN TRUE ELSE s.disabled[d]]]

\* Mutant of acceptedDraws: the test for a bomb already there (line 94) is
\* missing.
acceptedDrawsOnBombs(s, forb) ==
    {c \in Cells(s.map.w, s.map.h) : c \notin forb}

\* The draws (x, y) the loop does not reject (lines 91 and 94).
acceptedDraws(s, forb) ==
    {c \in Cells(s.map.w, s.map.h) : c \notin forb /\ getCell(s.map, c[1], c[2], 1) # 1}

RECURSIVE bombLoop(_, _, _, _)
\* generateBombs, lines 86-111: the while loop.  A rejected draw changes
\* nothing, so the loop is followed along its accepted draws.  The result is
\* the set of [s, done]: done = FALSE when bombs are still owed and every
\* draw is rejected, where the loop spins forever.
bombLoop(s, count, bombCount, forb) ==
    IF ~(count < bombCount) THEN {[s |-> s, done |-> TRUE]}
    ELSE IF acceptedDraws(s, forb) = {} THEN {[s |-> s, done |-> FALSE]}
    ELSE UNION {bombLoop(placeBomb(s, c[1], c[2]), count + 1, bombCount, forb) :
                    c \in acceptedDraws(s, forb)}

generateBombs(s, bombCount, startX, startY) ==
    bombLoop(s, 0, bombCount, forbidden(s.map, startX, startY))

RECURSIVE uncoverBombs(_, _)
\* revealBombs: uncover every cell that holds a bomb.
uncoverBombs(s, k) ==
    IF k > s.map.w * s.map.h THEN s
    ELSE LET x == (k - 1) % s.map.w
             y == (k - 1) \div s.map.w
         IN  uncoverBombs(
                 IF getCell(s.map, x, y, 1) = 1 THEN setCell(s, x, y, 3, 0) ELSE s,
                 k + 1)

\* Mutant of revealBombs: no bomb is uncovered.
revealNoBombs(s) == s

revealBombs(s) == uncoverBombs(s, 1)

\* Mutant of checkWin: the bomb test of line 353 is missing, every cell has
\* to be uncovered.
checkWinAllUncovered(m) ==
    ~\E c \in Cells(m.w, m.h) : getCell(m, c[1], c[2], 3) = 1

\* checkWin: no cell is both bomb-free and covered.
checkWin(m) ==
    ~\E c \in Cells(m.w, m.h) :
        getCell(m, c[1], c[2], 1) = 0 /\ getCell(m, c[1], c[2], 3) = 1

RECURSIVE flood(_, _, _)
\* Mutant of floodInto: no neighbour is ever entered.
floodIntoNever(r, nx, ny) == r

\* Mutant of floodInto: the visited test is applied to zero-count cells
\* only, a numbered cell is entered again from every side.
floodIntoRevisiting(r, nx, ny) ==
    IF /\ inMap(r.s.map, nx, ny)
       /\ (<<nx, ny>> \notin r.visited \/ getCell(r.s.map, nx, ny, 0) # 0)
    THEN flood(r, nx, ny)
    ELSE r

\* Mutant of floodInto: a flagged neighbour is not entered.
floodIntoUnflagged(r, nx, ny) ==
    IF /\ inMap(r.s.map, nx, ny)
       /\ <<nx, ny>> \notin r.visited
       /\ getCell(r.s.map, nx, ny, 2) # 1
    THEN flood(r, nx, ny)
    ELSE r

\* _flood, line 339-340: one neighbour of the double loop.
floodInto(r, nx, ny) ==
    IF inMap(r.s.map, nx, ny) /\ <<nx, ny>> \notin r.visited
    THEN flood(r, nx, ny)
    ELSE r

\* Mutant of flood: the covered bit is flipped instead of cleared.
floodFlipping(r, x, y) ==
    LET s1 == setCell(r.s, x, y, 3, 1 - getCell(r.s.map, x, y, 3))
        r0 == [s |-> s1, visited |-> r.visited \cup {<<x, y>>},
               calls |-> Append(r.calls, <<x, y>>)]
        r1 == floodInto(r0, x - 1, y - 1)
        r2 == floodInto(r1, x - 1, y)
        r3 == floodInto(r2, x - 1, y + 1)
        r4 == floodInto(r3, x, y - 1)
        r5 == floodInto(r4, x, y + 1)
        r6 == floodInto(r5, x + 1, y - 1)
        r7 == floodInto(r6, x + 1, y)
        r8 == floodInto(r7, x + 1, y + 1)
    IN  IF getCell(s1.map, x, y, 0) # 0 THEN r0
        ELSE <<r1, r2, r3, r4, r5, r6, r7, r8>>[8]

\* _flood: uncover (x, y), mark it visited, and if its number is 0 recurse
\* into every in-map neighbour not yet visited, in the order of the loops
\* (dx outer, dy inner, dx = dy = 0 skipped).  r is [s, visited, calls]:
\* calls lists the cells _flood was entered with.
flood(r, x, y) ==
    LET s1 == setCell(r.s, x, y, 3, 0)
        r0 == [s |-> s1, visited |-> r.visited \cup {<<x, y>>},
               calls |-> Append(r.calls, <<x, y>>)]
        r1 == floodInto(r0, x - 1, y - 1)
        r2 == floodInto(r1, x - 1, y)
        r3 == floodInto(r2, x - 1, y + 1)
        r4 == floodInto(r3, x, y - 1)
        r5 == floodInto(r4, x, y + 1)
        r6 == floodInto(r5, x + 1, y - 1)
        r7 == floodInto(r6, x + 1, y)
        r8 == floodInto(r7, x + 1, y + 1)
    IN  IF getCell(s1.map, x, y, 0) # 0 THEN r0
        ELSE <<r1, r2, r3, r4, r5, r6, r7, r8>>[8]   \* the eight visits, in order

\* Mutant of floodFillRun: the start cell is uncovered and _flood never runs.
floodFillStartOnly(s, startX, startY) ==
    [s |-> setCell(s, startX, startY, 3, 0), visited |-> {}, calls |-> <<>>]

\* floodFill: uncover the start cell; if its number is 0, _flood from it with
\* a fresh visited array.
floodFillRun(s, startX, startY) ==
    LET empty == getCell(s.map, startX, startY, 0) = 0
        s1 == setCell(s, startX, startY, 3, 0)
    IN  IF empty
        THEN flood([s |-> s1, visited |-> {}, calls |-> <<>>], startX, startY)
        ELSE [s |-> s1, visited |-> {}, calls |-> <<>>]

floodFill(s, startX, startY) == floodFillRun(s, startX, startY).s

\* ----------------------------------------------------------- class Game
\* Mutant of initialize: a Map of the same size is kept instead of rebuilt.
initializeReusingMap(s, width, height, bombCount) ==
    updateMap([s EXCEPT !.started = FALSE, !.dead = FALSE, !.status = "",
                        !.bombs = bombCount, !.flags = bombCount,
                        !.map = IF s.map.w = width /\ s.map.h = height
                                THEN s.map ELSE NewMap(width, height),
                        !.disabled = [c \in Cells(width, height) |-> FALSE]])

\* Game.initialize (called by createMap): fresh flags, fresh Map, one fresh,
\* enabled button per cell.  The ai.js globals and timers are not touched.
initialize(s, width, height, bombCount) ==
    updateMap([s EXCEPT !.started = FALSE, !.dead = FALSE, !.status = "",
                        !.bombs = bombCount, !.flags = bombCount,
                        !.map = NewMap(width, height),
                        !.disabled = [c \in Cells(width, height) |-> FALSE]])

\* Game.start: the set of states it can leave.  Where generateBombs does
\* not return, neither does start: the page hangs inside the handler.
start(s, startX, startY) ==
    LET s1 == [s EXCEPT !.started = TRUE, !.flags = s.bombs]
    IN  {IF o.done THEN [updateMap(o.s) EXCEPT !.status = "playing"]
                   ELSE [o.s EXCEPT !.hung = TRUE] :
            o \in generateBombs(s1, s1.bombs, startX, startY)}

\* Game.finish.  Its resets of window.currentTurn and window.aiThinking are
\* guarded by typeof window.X !== 'undefined'; ai.js declares both with a
\* top-level let, which creates no property of window, so the guards are
\* false and neither global is reset.
finish(s, result) ==
    LET s1 == [s EXCEPT !.started = FALSE,
                        !.disabled = [c \in DOMAIN s.disabled |-> TRUE]]
    IN  IF result = "win" THEN [s1 EXCEPT !.status = "won"]
        ELSE IF result = "lose" THEN [revealBombs(s1) EXCEPT !.status = "lost"]
        ELSE [s1 EXCEPT !.status = "lost"]

\* Mutant of placeFlag: the budget test of line 570 is missing.
placeFlagUnbudgeted(s) == [s |-> [s EXCEPT !.flags = s.flags - 1], ok |-> TRUE]

\* Game.placeFlag: [s, ok].
placeFlag(s) ==
    IF s.flags < 1 THEN [s |-> s, ok |-> FALSE]
    ELSE [s |-> [s EXCEPT !.flags = s.flags - 1], ok |-> TRUE]

\* Game.removeFlag.
removeFlag(s) == [s EXCEPT !.flags = s.flags + 1]

\* Map.cellRightClicked: [s, res].
cellRightClicked(s, x, y) ==
    IF getCell(s.map, x, y, 3) = 1
    THEN IF getCell(s.map, x, y, 2) = 0
         THEN IF placeFlag(s).ok
              THEN [s |-> setCell(placeFlag(s).s, x, y, 2, 1), res |-> "placed"]
              ELSE [s |-> s, res |-> "rejected"]
         ELSE [s |-> setCell(removeFlag(s), x, y, 2, 0), res |-> "removed"]
    ELSE [s |-> s, res |-> "ignored"]

\* ---------------------------------------------------------------- ai.js
\* Mutant of aiMove: the thinking timer is not armed.
aiMoveUntimed(s) ==
    IF s.aiMode = NoMode \/ s.currentTurn # "ai" THEN s
    ELSE [s EXCEPT !.aiThinking = TRUE]

\* aiMove: start thinking and arm the thinking timer.
aiMove(s) ==
    IF s.aiMode = NoMode \/ s.currentTurn # "ai" THEN s
    ELSE [s EXCEPT !.aiThinking = TRUE, !.aiTimer = "think"]

\* endPlayerTurn.
endPlayerTurn(s) ==
    IF s.aiMode = NoMode THEN s
    ELSE IF s.currentTurn # "player" THEN s
    ELSE aiMove([s EXCEPT !.currentTurn = "ai"])

\* Mutant of getAvailableCells: flagged cells are offered to the AI too.
getAvailableCellsFlagged(s) ==
    {c \in DOMAIN s.disabled :
        /\ ~s.disabled[c]
        /\ getCell(s.map, c[1], c[2], 3) = 1}

\* getAvailableCells: the enabled buttons of the grid that show the covered
\* glyph, which updateCell writes for a covered, unflagged cell.
getAvailableCells(s) ==
    {c \in DOMAIN s.disabled :
        /\ ~s.disabled[c]
        /\ getCell(s.map, c[1], c[2], 2) # 1
        /\ getCell(s.map, c[1], c[2], 3) = 1}

\* ------------------------------------------------------ Map.cellClicked
\* Lines 238-250: the turn gate.
turnGate(s) ==
    \/ s.currentTurn = "ai" /\ s.aiThinking
    \/ s.currentTurn # "ai" /\ s.currentTurn # "player"
    \/ s.aiThinking

\* Mutant of revealUnflagged: a click on an uncovered cell covers it again.
revealUnflaggedToggling(s, x, y) ==
    IF getCell(s.map, x, y, 1) = 1
    THEN [s |-> finish(setCell(s, x, y, 3, 0), "lose"), res |-> "mine"]
    ELSE IF getCell(s.map, x, y, 3) = 1
    THEN LET s1 == floodFill(s, x, y)
         IN  IF checkWin(s1.map) THEN [s |-> finish(s1, "win"), res |-> "revealed"]
             ELSE IF s1.aiMode # NoMode /\ s1.currentTurn = "player"
                  THEN [s |-> endPlayerTurn(s1), res |-> "revealed"]
                  ELSE [s |-> s1, res |-> "revealed"]
    ELSE [s |-> setCell(s, x, y, 3, 1), res |-> "noop"]

\* Lines 258-281, the click on a cell that carries no flag: [s, res].
revealUnflagged(s, x, y) ==
    IF getCell(s.map, x, y, 1) = 1
    THEN [s |-> finish(setCell(s, x, y, 3, 0), "lose"), res |-> "mine"]
    ELSE IF getCell(s.map, x, y, 3) = 1
    THEN LET s1 == floodFill(s, x, y)
         IN  IF checkWin(s1.map) THEN [s |-> finish(s1, "win"), res |-> "revealed"]
             ELSE IF s1.aiMode # NoMode /\ s1.currentTurn = "player"
                  THEN [s |-> endPlayerTurn(s1), res |-> "revealed"]
                  ELSE [s |-> s1, res |-> "revealed"]
    ELSE [s |-> s, res |-> "noop"]

\* Mutant of revealCell: the flag test of lines 254-257 is missing.
revealIgnoringFlag(s, x, y) == revealUnflagged(s, x, y)

\* Lines 254-281, after the start: [s, res].
revealCell(s, x, y) ==
    IF getCell(s.map, x, y, 2) = 1 THEN [s |-> s, res |-> "blocked"]
    ELSE revealUnflagged(s, x, y)

\* Lines 251-253: the match is started by any click that passes the gate
\* while Game.started is false.
startIfNeeded(s, x, y) == IF ~s.started THEN start(s, x, y) ELSE {s}

\* cellClicked: the set of [s, res, start] it can produce; start tells
\* whether Game.start was called, res = "hang" that it never returned.
cellClicked(s, x, y) ==
    IF turnGate(s) THEN {[s |-> s, res |-> "gated", start |-> FALSE]}
    ELSE {IF t.hung THEN [s |-> t, res |-> "hang", start |-> TRUE]
                    ELSE [s |-> revealCell(t, x, y).s,
                          res |-> revealCell(t, x, y).res,
                          start |-> ~s.started] :
             t \in startIfNeeded(s, x, y)}

\* ------------------------------------------------------------- the page
\* Whether element.click() on the button t reaches its listener: a button
\* of the grid is disabled or not as the handlers left it; a button that
\* has left the document was enabled when it left (NewMatch keeps no other).
clickable(s, t) ==
    IF t.detached THEN TRUE ELSE ~s.disabled[<<t.x, t.y>>]

Init ==
    /\ \E w \in 1 .. MaxW, h \in 1 .. MaxH, b \in 0 .. MaxBombs :
          /\ map = NewMap(w, h)
          /\ disabled = [c \in Cells(w, h) |-> FALSE]
          /\ bombs = b
          /\ flags = b
    /\ started = FALSE
    /\ dead = FALSE
    /\ status = ""
    /\ currentTurn = "player"
    /\ aiMode = NoMode
    /\ aiThinking = FALSE
    /\ aiTimer = "none"
    /\ aiTarget = {}
    /\ hung = FALSE
    /\ call = {}

\* The "Start Game" button: Game.createMap -> initialize.  The old buttons
\* leave the document; a pending AI click keeps its (old) button, which from
\* now on no handler can disable or enable.
createMap(s, w, h, b) ==
    [initialize(s, w, h, b) EXCEPT
        !.aiTarget = {[t EXCEPT !.detached = TRUE] :
                         t \in {u \in s.aiTarget : clickable(s, u)}}]

NewMatch(w, h, b) ==
    /\ ~hung
    /\ SetState(createMap(State, w, h, b))

\* A click of the player on the button cell-x-y of the grid.  The browser
\* delivers no click to a disabled button.
PlayerClick(x, y) ==
    /\ ~hung
    /\ inMap(map, x, y)
    /\ ~disabled[<<x, y>>]
    /\ \E r \in cellClicked(State, x, y) : SetState(r.s)

\* A right click (contextmenu) on the button cell-x-y.  cellRightClicked has
\* no gate of its own, and the HTML standard withholds only click events
\* from a disabled button.
RightClick(x, y) ==
    /\ ~hung
    /\ inMap(map, x, y)
    /\ SetState(cellRightClicked(State, x, y).s)

\* startAIEasy / startAIMedium / startAIHard.
SelectAI(mode) ==
    /\ ~hung
    /\ SetState([State EXCEPT !.aiMode = mode])

\* The thinking timer of aiMove (lines 143-152): makeAIMove picks any
\* available cell and arms the click timer, then the turn timer is armed.
ThinkTimeout ==
    /\ ~hung
    /\ aiTimer = "think"
    /\ LET s1 == [State EXCEPT !.aiThinking = FALSE]
       IN  IF getAvailableCells(s1) = {}
           THEN SetState([s1 EXCEPT !.aiTimer = "turn", !.aiTarget = {}])
           ELSE \E c \in getAvailableCells(s1) :
                   SetState([s1 EXCEPT !.aiTimer = "click",
                       !.aiTarget = {[x |-> c[1], y |-> c[2], detached |-> FALSE]}])

\* The click timer of makeAIMove (lines 176-178): element.click() runs the
\* button's listener, this.map.cellClicked(x, y) on the current Map, unless
\* the button is disabled.  It was armed before the turn timer with the same
\* delay, so it fires first.
ClickTimeout ==
    /\ ~hung
    /\ aiTimer = "click"
    /\ \/ /\ \E t \in aiTarget :
                /\ clickable(State, t)
                /\ \E r \in cellClicked([State EXCEPT !.aiTimer = "turn",
                                                      !.aiTarget = {}], t.x, t.y) :
                      SetState(r.s)
       \/ /\ \A t \in aiTarget : ~clickable(State, t)
          /\ SetState([State EXCEPT !.aiTimer = "turn", !.aiTarget = {}])

\* The turn timer of aiMove (lines 147-150).
TurnTimeout ==
    /\ ~hung
    /\ aiTimer = "turn"
    /\ SetState([State EXCEPT !.currentTurn = "player", !.aiTimer = "none"])

Next ==
    \/ \E w \in 1 .. MaxW, h \in 1 .. MaxH, b \in 0 .. MaxBombs : NewMatch(w, h, b)
    \/ \E x \in 0 .. MaxW - 1, y \in 0 .. MaxH - 1 : PlayerClick(x, y)
    \/ \E x \in 0 .. MaxW - 1, y \in 0 .. MaxH - 1 : RightClick(x, y)
    \/ \E mode \in AIModes : SelectAI(mode)
    \/ ThinkTimeout
    \/ ClickTimeout
    \/ TurnTimeout

Spec == Init /\ [][Next]_vars

\* ------------------------------------------- generateBombs, draw by draw
\* The first click of a match followed through Game.start one draw of
\* generateBombs at a time.  call holds the locals of the running call:
\* [bombCount, startX, startY, count].
PlaceCoords == (0 .. MaxPlaceW - 1) \X (0 .. MaxPlaceH - 1)

\* Game.start has run its two assignments (lines 521-522) and entered
\* generateBombs(bombs, startX, startY) on the fresh board of a new match.
InitPlacement ==
    /\ \E w \in 1 .. MaxPlaceW, h \in 1 .. MaxPlaceH, b \in 0 .. MaxPlaceBombs :
          /\ map = NewMap(w, h)
          /\ disabled = [c \in Cells(w, h) |-> FALSE]
          /\ bombs = b
          /\ flags = b
          /\ \E c \in Cells(w, h) :
                call = {[bombCount |-> b, startX |-> c[1], startY |-> c[2], count |-> 0]}
    /\ started = TRUE
    /\ dead = FALSE
    /\ status = ""
    /\ currentTurn = "player"
    /\ aiMode = NoMode
    /\ aiThinking = FALSE
    /\ aiTimer = "none"
    /\ aiTarget = {}
    /\ hung = FALSE

\* One pass of the while loop (lines 86-110) in which Math.random gives
\* (x, y): a draw in the forbidden set or on a bomb is dropped by continue
\* and changes nothing; any other draw places a bomb and counts it.
Draw(x, y) ==
    /\ inMap(map, x, y)
    /\ \E r \in call :
          /\ r.count < r.bombCount
          /\ IF <<x, y>> \in acceptedDraws(State, forbidden(map, r.startX, r.startY))
             THEN /\ map' = placeBomb(State, x, y).map
                  /\ disabled' = placeBomb(State, x, y).disabled
                  /\ call' = {[r EXCEPT !.count = r.count + 1]}
                  /\ UNCHANGED <<started, dead, bombs, flags, status, currentTurn,
                                 aiMode, aiThinking, aiTimer, aiTarget, hung>>
             ELSE UNCHANGED vars

\* The loop condition fails: generateBombs returns and Game.start finishes
\* (lines 525-528).
Return ==
    /\ \E r \in call : ~(r.count < r.bombCount)
    /\ call' = {}
    /\ disabled' = updateMap(State).disabled
    /\ status' = "playing"
    /\ UNCHANGED <<map, started, dead, bombs, flags, currentTurn,
                   aiMode, aiThinking, aiTimer, aiTarget, hung>>

\* floodFill applied to a covered cell without a bomb of the finished
\* placement.
Uncover(x, y) ==
    /\ call = {}
    /\ inMap(map, x, y)
    /\ getCell(map, x, y, 1) = 0
    /\ getCell(map, x, y, 3) = 1
    /\ map' = floodFill(State, x, y).map
    /\ disabled' = floodFill(State, x, y).disabled
    /\ UNCHANGED <<started, dead, bombs, flags, status, currentTurn,
                   aiMode, aiThinking, aiTimer, aiTarget, hung, call>>

NextPlacement ==
    \/ \E c \in PlaceCoords : Draw(c[1], c[2])
    \/ Return
    \/ \E c \in PlaceCoords : Uncover(c[1], c[2])

\* Math.random gives every coordinate of the board again and again: while
\* some draw would place a bomb, the draws that change nothing do not go on
\* forever.  The loop itself runs on, so it leaves when its condition fails.
FairDraws ==
    /\ WF_vars(\E c \in PlaceCoords : Draw(c[1], c[2]))
    /\ WF_vars(Return)

PlacementSpec == InitPlacement /\ [][NextPlacement]_vars /\ FairDraws

\* ----------------------------------------------------- vocabulary of the claims
Board == Cells(map.w, map.h)

number(m, c) == m.grid[c][1]
hasMine(m, c) == m.grid[c][2] = 1
isFlagged(m, c) == m.grid[c][3] = 1
isCovered(m, c) == m.grid[c][4] = 1

Mines(m) == {c \in Cells(m.w, m.h) : hasMine(m, c)}

\* The 8-neighbourhood of c, clipped to the map (c itself excluded).
Neighbours8(m, c) ==
    {d \in Cells(m.w, m.h) :
        /\ d # c
        /\ d[1] - c[1] \in -1 .. 1
        /\ d[2] - c[2] \in -1 .. 1}

\* The cell (x, y) and its 8-neighbourhood, clipped to the map.
SafeZone(m, x, y) ==
    {d \in Cells(m.w, m.h) : d[1] - x \in -1 .. 1 /\ d[2] - y \in -1 .. 1}

AllCovered(m) == \A c \in Cells(m.w, m.h) : isCovered(m, c)

\* Lifecycle: the match is WON or LOST.
Terminal == status \in {"won", "lost"}

Coords == (0 .. MaxW - 1) \X (0 .. MaxH - 1)

\* A step that is the click of the AI's click timer, delivered to (x, y).
AIClick(x, y) ==
    /\ aiTimer = "click"
    /\ \E t \in aiTarget : t.x = x /\ t.y = y /\ clickable(State, t)
    /\ ClickTimeout

\* A step in which cellClicked(x, y) runs (onReveal), whoever clicked.
Reveal(x, y) == PlayerClick(x, y) \/ AIClick(x, y)

\* A step that is createMap (newMatch).
NewMatchStep ==
    \E w \in 1 .. MaxW, h \in 1 .. MaxH, b \in 0 .. MaxBombs : NewMatch(w, h, b)

\* ------------------------------------------------------------------ C1
\* C1: when a reveal at an in-bounds (x, y) starts the match on a board
\* without mines and generateBombs returns, exactly Game.bombs cells hold a
\* mine and none of them lies at (x, y) or in its clipped 8-neighbourhood.
C1_PlaceMinesExactAndSafe ==
    [][\A c \in Coords :
          (/\ ~started
           /\ ~turnGate(State)
           /\ Mines(map) = {}
           /\ inMap(map, c[1], c[2])
           /\ ~hung'
           /\ Reveal(c[1], c[2]))
          => /\ Cardinality(Mines(map')) = bombs
             /\ Mines(map') \cap SafeZone(map', c[1], c[2]) = {}]_vars

\* C1 witness: a fresh placement of two mines has happened and the reveal
\* that caused it uncovered cells.
C1_Witness ==
    /\ started
    /\ ~hung
    /\ bombs = 2
    /\ Cardinality(Mines(map)) = 2
    /\ \E c \in Board : ~isCovered(map, c)

\* ------------------------------------------------------------------ C2
\* C2 (the claim as stated): once mine placement has completed, every cell's
\* number, mined or not, equals the number of mines in its 8-neighbourhood.
C2_NumbersAreNeighbourMines ==
    (status # "" /\ ~hung) =>
        \A c \in Board : number(map, c) = Cardinality(Mines(map) \cap Neighbours8(map, c))

\* ------------------------------------------------------------------ C3
\* C3 (the claim as stated): the reveal that uncovers the first cell of a
\* match uncovers no mine.
C3_FirstUncoverIsSafe ==
    [][(AllCovered(map) /\ ~NewMatchStep /\ ~AllCovered(map'))
       => \A c \in Cells(map'.w, map'.h) : ~(hasMine(map', c) /\ ~isCovered(map', c))]_vars

\* ------------------------------------------------------------------ C4
\* C4: within a match (any step but newMatch) a cell that is uncovered
\* stays uncovered.
C4_RevealMonotonic ==
    [][(\A c \in Board : ~isCovered(map, c)
            => (c \in Cells(map'.w, map'.h) /\ ~isCovered(map', c)))
       \/ NewMatchStep]_vars

\* C4 witness: a lost match in which a reveal, a flood-fill reaching more
\* than the clicked cell, a flag toggle and revealBombs have all acted.
C4_Witness ==
    /\ status = "lost"
    /\ Cardinality({c \in Board : ~hasMine(map, c) /\ ~isCovered(map, c)}) >= 2
    /\ \E c \in Board : isFlagged(map, c)
    /\ \A c \in Mines(map) : ~isCovered(map, c)

\* ------------------------------------------------------------------ C5
\* C5 (the claim as stated): once the mines of a match are placed, no step
\* of the same match changes any cell's bomb bit or number.
C5_MinesPlacedOnce ==
    [][(status # "" /\ ~NewMatchStep)
       => \A c \in Board : /\ hasMine(map', c) = hasMine(map, c)
                           /\ number(map', c) = number(map, c)]_vars

\* ------------------------------------------------------------------ C6
\* C6 (the claim as stated): on a WON or LOST match a reveal changes no
\* cell, places no mine and leaves flags and the lifecycle as they are.
C6_TerminalRejectsReveal ==
    [][\A c \in Coords :
          (Terminal /\ Reveal(c[1], c[2]))
          => UNCHANGED <<map, flags, started, status>>]_vars

\* ------------------------------------------------------------------ C7
\* C7 (the claim as stated): on a WON or LOST match a flag toggle changes
\* no flag bit and leaves flags (remaining) as it is.
C7_TerminalRejectsToggle ==
    [][\A c \in Coords :
          (Terminal /\ RightClick(c[1], c[2]))
          => UNCHANGED <<map, flags>>]_vars

\* ------------------------------------------------------------------ C8
\* C8 (the claim as stated): a reveal whose target carries a flag changes
\* nothing, in any lifecycle state.
C8_FlaggedRevealChangesNothing ==
    [][\A c \in Coords :
          (/\ inMap(map, c[1], c[2])
           /\ isFlagged(map, c)
           /\ Reveal(c[1], c[2]))
          => UNCHANGED <<map, flags, started, status, hung>>]_vars

\* ------------------------------------------------------------------ C9
\* C9: a reveal aimed at a covered, flagged cell leaves that cell covered
\* and flagged.
C9_FlagBlocksReveal ==
    [][\A c \in Coords :
          (/\ inMap(map, c[1], c[2])
           /\ isFlagged(map, c)
           /\ isCovered(map, c)
           /\ Reveal(c[1], c[2]))
          => /\ isFlagged(map', c)
             /\ isCovered(map', c)]_vars

\* C9 witness: with no AI ever selected, a match that is started while
\* every cell is still covered: the click that started it was aimed at a
\* flagged cell, which is still covered and flagged.
C9_Witness ==
    /\ aiMode = NoMode
    /\ started
    /\ ~hung
    /\ bombs >= 1
    /\ AllCovered(map)
    /\ \E c \in Board : isFlagged(map, c)

\* ----------------------------------------------------------------- C10
\* C10 (the claim as stated): 0 <= flagsRemaining <= mineCount in every
\* reachable state.
C10_FlagBudgetInRange == 0 <= flags /\ flags <= bombs

\* ----------------------------------------------------------------- C11
\* The cells of m other than c carry the same four values in m2.
SameElsewhere(m, m2, c) ==
    /\ m2.w = m.w
    /\ m2.h = m.h
    /\ \A d \in Cells(m.w, m.h) \ {c} : m2.grid[d] = m.grid[d]

\* The part of the state a flag toggle must leave alone whatever it does.
ToggleFrame == UNCHANGED <<started, dead, bombs, status, hung>>

\* C11: a flag toggle at (x, y) has exactly these effects.  Covered and
\* unflagged with flags > 0: the flag is set and flags decreases by 1.
\* Covered and flagged: the flag is cleared and flags increases by 1.
\* Covered and unflagged with flags = 0, or uncovered: nothing changes.
\* The covered bit, the bomb bit and the number of (x, y) and every other
\* cell are never changed.
C11_ToggleFlagEffect ==
    [][\A c \in Coords :
          (inMap(map, c[1], c[2]) /\ RightClick(c[1], c[2]))
          => /\ SameElsewhere(map, map', c)
             /\ isCovered(map', c) = isCovered(map, c)
             /\ hasMine(map', c) = hasMine(map, c)
             /\ number(map', c) = number(map, c)
             /\ ToggleFrame
             /\ (isCovered(map, c) /\ ~isFlagged(map, c) /\ flags > 0)
                    => (isFlagged(map', c) /\ flags' = flags - 1)
             /\ (isCovered(map, c) /\ isFlagged(map, c))
                    => (~isFlagged(map', c) /\ flags' = flags + 1)
             /\ ((isCovered(map, c) /\ ~isFlagged(map, c) /\ flags = 0)
                     \/ ~isCovered(map, c))
                    => UNCHANGED <<map, flags>>]_vars

\* C11 witness: in a started match with two bombs the whole budget has been
\* spent on two flags, so that a further toggle on an unflagged covered cell
\* is the refused case; a cell is uncovered (the ignored case) and a flag can
\* be taken back (the removing case).
C11_Witness ==
    /\ started
    /\ ~hung
    /\ bombs = 2
    /\ flags = 0
    /\ Cardinality({c \in Board : isFlagged(map, c) /\ isCovered(map, c)}) = 2
    /\ \E c \in Board : ~isCovered(map, c)
    /\ \E c \in Board : isCovered(map, c) /\ ~isFlagged(map, c)

\* ----------------------------------------------------------------- C12
Uncovered(m) == {c \in Cells(m.w, m.h) : ~isCovered(m, c)}

\* One more ring of zero-count cells around Z.
Grow(m, Z) ==
    Z \cup {d \in Cells(m.w, m.h) :
               number(m, d) = 0 /\ \E z \in Z : d \in Neighbours8(m, z)}

RECURSIVE ZeroRegion(_, _)
\* The zero-count cells reachable from Z through 8-adjacent zero-count cells.
ZeroRegion(m, Z) == IF Grow(m, Z) = Z THEN Z ELSE ZeroRegion(m, Grow(m, Z))

\* What a reveal at c is to uncover: c alone when its number is not 0, else
\* the zero region of c with the 8-neighbours of each of its cells.
FloodRegion(m, c) ==
    IF number(m, c) # 0 THEN {c}
    ELSE LET Z == ZeroRegion(m, {c})
         IN  Z \cup UNION {Neighbours8(m, z) : z \in Z}

\* C12: in a started match, an accepted reveal of a covered, unflagged cell
\* without a mine leaves uncovered exactly the cells uncovered before plus
\* the flood region of the target.
C12_RevealUncoversFloodRegion ==
    [][\A c \in Coords :
          (/\ started
           /\ ~turnGate(State)
           /\ inMap(map, c[1], c[2])
           /\ isCovered(map, c)
           /\ ~isFlagged(map, c)
           /\ ~hasMine(map, c)
           /\ Reveal(c[1], c[2]))
          => Uncovered(map') = Uncovered(map) \cup FloodRegion(map, c)]_vars

\* C12 witness: with no AI ever selected, a match in progress in which a
\* numbered cell is uncovered next to no uncovered zero-count cell.  The
\* click that starts a match has number 0 (its neighbourhood is the safe
\* zone), so that cell was uncovered alone, by a reveal in the started match.
C12_Witness ==
    /\ aiMode = NoMode
    /\ status = "playing"
    /\ started
    /\ Mines(map) # {}
    /\ \E c \in Uncovered(map) :
          /\ number(map, c) # 0
          /\ \A z \in Neighbours8(map, c) : ~(number(map, z) = 0 /\ ~isCovered(map, z))

\* ----------------------------------------------------------------- C13
\* Every cell without a mine is uncovered.
AllSafeUncovered(m) == \A c \in Cells(m.w, m.h) : ~hasMine(m, c) => ~isCovered(m, c)

\* The step uncovers a cell that holds no mine.
UncoversSafeCell ==
    \E c \in Board :
        /\ isCovered(map, c)
        /\ c \in Cells(map'.w, map'.h)
        /\ ~isCovered(map', c)
        /\ ~hasMine(map', c)

\* C13: checkWin (an operator of the map alone) is true exactly when every
\* cell without a mine is uncovered; within a match it never goes back from
\* true to false; and the step that uncovers the last covered cell without
\* a mine leaves the match won.
C13_WinQuery ==
    /\ [](checkWin(map) <=> AllSafeUncovered(map))
    /\ [][(checkWin(map) /\ ~NewMatchStep) => checkWin(map')]_vars
    /\ [][(~checkWin(map) /\ ~NewMatchStep /\ UncoversSafeCell /\ checkWin(map'))
            => status' = "won"]_vars

\* C13 witness: a won match with two bombs, both still covered, and more
\* than one cell uncovered.
C13_Witness ==
    /\ status = "won"
    /\ checkWin(map)
    /\ Cardinality(Mines(map)) = 2
    /\ \A c \in Mines(map) : isCovered(map, c)
    /\ Cardinality(Uncovered(map)) >= 2

\* ----------------------------------------------------------------- C14
\* C14: in a started match, an accepted reveal of an unflagged cell that
\* holds a mine uncovers that cell and every other mine, leaves the match
\* lost, and changes no flag bit, no bomb bit, no number, and the covered bit
\* of no cell without a mine.
C14_MineHit ==
    [][\A c \in Coords :
          (/\ started
           /\ ~turnGate(State)
           /\ inMap(map, c[1], c[2])
           /\ ~isFlagged(map, c)
           /\ hasMine(map, c)
           /\ Reveal(c[1], c[2]))
          => /\ status' = "lost"
             /\ map'.w = map.w /\ map'.h = map.h
             /\ ~isCovered(map', c)
             /\ \A d \in Board :
                   /\ hasMine(map', d) = hasMine(map, d)
                   /\ isFlagged(map', d) = isFlagged(map, d)
                   /\ number(map', d) = number(map, d)
                   /\ hasMine(map, d) => ~isCovered(map', d)
                   /\ ~hasMine(map, d) => (isCovered(map', d) = isCovered(map, d))]_vars

\* C14 witness: a lost match with two bombs, both uncovered, one of them
\* under a flag, and a cell without a mine still covered.
C14_Witness ==
    /\ status = "lost"
    /\ Cardinality(Mines(map)) = 2
    /\ \A c \in Mines(map) : ~isCovered(map, c)
    /\ \E c \in Mines(map) : isFlagged(map, c)
    /\ \E c \in Board : ~hasMine(map, c) /\ isCovered(map, c)

\* ----------------------------------------------------------------- C15
\* C15: on a board created with no bombs, the first accepted reveal of an
\* unflagged cell uncovers every cell in that one step and the match is won.
C15_NoMinesOneClickWins ==
    [][\A c \in Coords :
          (/\ bombs = 0
           /\ Mines(map) = {}
           /\ AllCovered(map)
           /\ ~turnGate(State)
           /\ inMap(map, c[1], c[2])
           /\ ~isFlagged(map, c)
           /\ Reveal(c[1], c[2]))
          => /\ Uncovered(map') = Cells(map.w, map.h)
             /\ checkWin(map')
             /\ status' = "won"]_vars

\* C15 witness: a won match without bombs on the largest board, every cell
\* uncovered.
C15_Witness ==
    /\ status = "won"
    /\ bombs = 0
    /\ Mines(map) = {}
    /\ map.w = MaxW /\ map.h = MaxH
    /\ Uncovered(map) = Board

\* ----------------------------------------------------------------- C16
\* The most bombs a w x h board can take: the cells left outside the safe
\* zone of the best placed first click.
PlaceableCapacity(w, h) ==
    LET free(c) == w * h - Cardinality(SafeZone([w |-> w, h |-> h], c[1], c[2]))
    IN  CHOOSE n \in 0 .. w * h :
            /\ \E c \in Cells(w, h) : free(c) = n
            /\ \A c \in Cells(w, h) : free(c) <= n

InvalidConfiguration(w, h, b) ==
    w <= 0 \/ h <= 0 \/ b <= 0 \/ b > PlaceableCapacity(w, h)

\* C16 (the claim as stated): newMatch with a non-positive dimension, a
\* non-positive bomb count or more bombs than the board can take creates no
\* match and leaves the existing one as it is.
C16_InvalidConfigurationRejected ==
    [][\A w \in 1 .. MaxW, h \in 1 .. MaxH, b \in 0 .. MaxBombs :
          (InvalidConfiguration(w, h, b) /\ NewMatch(w, h, b))
          => UNCHANGED <<map, disabled, started, bombs, flags, status>>]_vars

\* ----------------------------------------------------------------- C17
\* C17: newMatch(w, h, b), in whatever lifecycle state it is pressed, leaves
\* a w x h board whose cells are all covered, unflagged, without a mine and
\* with number 0, flags = bombs = b, and a match that is not started.
\* (NewMatch is enabled with every w, h, b wherever the page is not hung, and
\* its successor is createMap(State, w, h, b).)
C17_NewMatchIsFresh ==
    ~hung =>
        \A w \in 1 .. MaxW, h \in 1 .. MaxH, b \in 0 .. MaxBombs :
            LET s == createMap(State, w, h, b)
            IN  /\ s.map.w = w /\ s.map.h = h
                /\ DOMAIN s.map.grid = Cells(w, h)
                /\ \A c \in Cells(w, h) :
                      /\ isCovered(s.map, c)
                      /\ ~isFlagged(s.map, c)
                      /\ ~hasMine(s.map, c)
                      /\ number(s.map, c) = 0
                /\ s.bombs = b
                /\ s.flags = b
                /\ ~s.started
                /\ s.status = ""

\* C17 witness: a fresh, not started board while the click the AI armed in
\* the match before is still pending on a button of the old grid: newMatch
\* was pressed during a match in progress.
C17_Witness ==
    /\ status = ""
    /\ ~started
    /\ AllCovered(map)
    /\ Mines(map) = {}
    /\ aiTimer = "click"
    /\ \E t \in aiTarget : t.detached

\* ----------------------------------------------------------------- C18
\* C18 (the claim as stated): with an AI selected, while currentTurn is "ai"
\* (from the end of the player's turn until the turn timer hands it back) a
\* click of the player changes nothing of the match.
C18_TurnsSerialized ==
    [][\A c \in Coords :
          (/\ aiMode # NoMode
           /\ currentTurn = "ai"
           /\ PlayerClick(c[1], c[2]))
          => UNCHANGED <<map, disabled, flags, started, status>>]_vars

\* ----------------------------------------------------------------- C19
\* C19: on every board, from every cell, floodFill terminates, _flood is
\* entered with no cell twice, and so is entered at most w * h times.
C19_FloodVisitsEachCellOnce ==
    \A c \in Board :
        LET calls == floodFillRun(State, c[1], c[2]).calls
        IN  /\ Len(calls) <= map.w * map.h
            /\ \A i, j \in 1 .. Len(calls) : i # j => calls[i] # calls[j]

\* C19 witness: on a 3x3 board with a bomb, a flood has uncovered eight
\* cells, entering _flood with each of them.
C19_Witness ==
    /\ call = {}
    /\ Mines(map) # {}
    /\ Cardinality(Uncovered(map)) = 8
    /\ \E c \in Board : Len(floodFillRun(State, c[1], c[2]).calls) = 8

\* ----------------------------------------------------------------- C20
\* The cells of the board outside the clipped 3x3 zone around (x, y).
FreeCells(m, x, y) == m.w * m.h - Cardinality(SafeZone(m, x, y))

\* The running call asks for no more bombs than there are free cells.
WithinCapacity == \A r \in call : r.bombCount <= FreeCells(map, r.startX, r.startY)

Returned == call = {}

\* C20: under fair draws, generateBombs on a fresh board returns if and
\* only if bombCount is at most the number of cells outside the clipped 3x3
\* zone around the first click; asked for more, it never returns.
C20_PlacementTerminatesIffCapacity ==
    /\ WithinCapacity => <>Returned
    /\ ~WithinCapacity => [](~Returned)

\* C20 witness: a call that has placed two bombs, owes another one, and has
\* no cell left that a draw could take: the loop spins.
C20_Witness ==
    \E r \in call :
        /\ r.count = 2
        /\ r.count < r.bombCount
        /\ Cardinality(Mines(map)) = 2
        /\ acceptedDraws(State, SafeZone(map, r.startX, r.startY)) = {}

\* ----------------------------------------------------------------- C21
\* C21: the flood of an accepted reveal does not stop at flags.  Whatever
\* covered, unflagged cell a reveal is called on, every flagged cell of the
\* flood region of the target (taken through flagged zero-count cells as
\* through any other) is uncovered when the call returns and its flag bit
\* is still set.  The region is read off the board the call leaves, whose
\* numbers are those the flood saw (a first click places the bombs before
\* it floods).
C21_FloodIgnoresFlags ==
    \A c \in Board :
        (/\ ~hung
         /\ ~turnGate(State)
         /\ isCovered(map, c)
         /\ ~isFlagged(map, c))
        => \A r \in cellClicked(State, c[1], c[2]) :
              (~r.s.hung /\ ~hasMine(r.s.map, c))
              => \A d \in FloodRegion(r.s.map, c) :
                    isFlagged(map, d)
                    => (~isCovered(r.s.map, d) /\ isFlagged(r.s.map, d))

\* C21 witness: with no AI ever selected and a bomb on the board, a
\* zero-count cell with an uncovered neighbour is uncovered and flagged.  A
\* flag is only ever set on a covered cell and a flagged cell refuses its
\* own reveal, so a flood has passed over the flag.
C21_Witness ==
    /\ aiMode = NoMode
    /\ Mines(map) # {}
    /\ \E z \in Board :
          /\ number(map, z) = 0
          /\ ~isCovered(map, z)
          /\ isFlagged(map, z)
          /\ \E d \in Neighbours8(map, z) : ~isCovered(map, d)

\* ----------------------------------------------------------------- C22
\* The cells whose click listener a click can reach in the current state:
\* the enabled buttons of the grid, and the cell at the coordinates of a
\* button the AI has chosen and whose click is pending.
Deliverable ==
    {c \in Board :
        \/ ~disabled[c]
        \/ /\ aiTimer = "click"
           /\ \E t \in aiTarget : t.x = c[1] /\ t.y = c[2] /\ clickable(State, t)}

\* C22: reveal is idempotent.  In a started match that is in progress, a
\* reveal that reaches an already uncovered cell returns with the whole
\* state as it found it: no cell, not the flag budget, not the lifecycle
\* and not the turn has changed.
C22_RevealIdempotent ==
    \A c \in Deliverable :
        (started /\ status = "playing" /\ ~hung /\ ~isCovered(map, c))
        => \A r \in cellClicked(State, c[1], c[2]) : r.s = State

\* C22 witness: in a started match in progress the pending click of the AI
\* is about to pass the turn gate and reach an uncovered, unflagged
\* zero-count cell whose flood has run (no neighbour is left covered).
C22_Witness ==
    /\ started /\ status = "playing" /\ ~hung
    /\ aiTimer = "click"
    /\ ~turnGate(State)
    /\ \E t \in aiTarget :
          /\ clickable(State, t)
          /\ inMap(map, t.x, t.y)
          /\ ~isCovered(map, <<t.x, t.y>>)
          /\ ~isFlagged(map, <<t.x, t.y>>)
          /\ number(map, <<t.x, t.y>>) = 0
          /\ \A d \in Neighbours8(map, <<t.x, t.y>>) : ~isCovered(map, d)

\* ----------------------------------------------------------------- C23
\* What the claims call a no-op: the call returns, and with the board, the
\* lifecycle and the flag budget it found.
NoOp(s) ==
    /\ ~s.hung
    /\ s.map = map
    /\ s.started = started
    /\ s.status = status
    /\ s.flags = flags

\* C23: a request with coordinates outside the board is a silent no-op in
\* every lifecycle state.  A flag toggle called outside the board changes
\* nothing, and neither does the only reveal the page can make outside the
\* board, the pending click of the AI on a button chosen on an earlier,
\* larger board.
C23_OutOfBoundsNoOp ==
    /\ \A c \in Coords \ Board :
          ~hung => NoOp(cellRightClicked(State, c[1], c[2]).s)
    /\ \A t \in aiTarget :
          (/\ ~hung
           /\ aiTimer = "click"
           /\ clickable(State, t)
           /\ ~inMap(map, t.x, t.y))
          => \A r \in cellClicked(State, t.x, t.y) : NoOp(r.s)

\* ----------------------------------------------------------------- C24
\* generateBombs draw by draw on a board wide enough to hold a bomb with a
\* bomb on each of its eight neighbours, clear of the first click.
DenseW == 5
DenseH == 3
DenseBombs == 9

DenseCoords == (0 .. DenseW - 1) \X (0 .. DenseH - 1)

\* Game.start(x, y) on a fresh DenseW x DenseH board, as it enters
\* generateBombs.
InitDense ==
    /\ \E b \in 0 .. DenseBombs :
          /\ map = NewMap(DenseW, DenseH)
          /\ disabled = [c \in Cells(DenseW, DenseH) |-> FALSE]
          /\ bombs = b
          /\ flags = b
          /\ \E c \in Cells(DenseW, DenseH) :
                call = {[bombCount |-> b, startX |-> c[1], startY |-> c[2], count |-> 0]}
    /\ started = TRUE
    /\ dead = FALSE
    /\ status = ""
    /\ currentTurn = "player"
    /\ aiMode = NoMode
    /\ aiThinking = FALSE
    /\ aiTimer = "none"
    /\ aiTarget = {}
    /\ hung = FALSE

NextDense ==
    \/ \E c \in DenseCoords : Draw(c[1], c[2])
    \/ Return

DenseSpec == InitDense /\ [][NextDense]_vars

\* C24: in every reachable state the number of every cell, with or without
\* a bomb, is an integer from 0 to 8.
C24_NumberInRange ==
    \A c \in Board : number(map, c) \in 0 .. 8

\* ----------------------------------------------------------------- C25
\* C25: flag conservation.  In every reachable state Game.flags plus the
\* number of flagged cells equals Game.bombs, the flags placed before the
\* first reveal included (a page stuck inside generateBombs is left out).
C25_FlagConservation ==
    ~hung => flags + Cardinality({c \in Board : isFlagged(map, c)}) = bombs

\* ----------------------------------------------------------------- C26
\* C26: while the match is not lost no cell with a bomb is uncovered: a
\* bomb is uncovered only by the click that hits it and by the revealBombs
\* of the loss that follows.
C26_NoMineUncoveredUnlessLost ==
    status # "lost" => \A c \in Mines(map) : isCovered(map, c)

\* ----------------------------------------------------------------- C27
\* The pending click timer fires: the step that takes aiTimer from "click"
\* to "turn", which only ClickTimeout makes.  A page stuck inside
\* generateBombs runs no timer.
ClickFires == aiTimer = "click" /\ ~hung /\ aiTimer' = "turn"

\* setTimeout (ai.js 143, 147, 176): a timer that is armed fires, whatever
\* else the page does meanwhile.
FairTimers ==
    /\ WF_vars(ThinkTimeout)
    /\ WF_aiTimer(ClickFires)
    /\ WF_vars(TurnTimeout)

FairSpec == Init /\ [][Next]_vars /\ FairTimers

\* C27: whenever the turn has gone to the AI, currentTurn becomes "player"
\* again with aiThinking false, provided the armed timers fire.  The timers
\* of a page stuck inside generateBombs never fire, so that page is the one
\* way out.
C27_TurnReturnsToPlayer ==
    (currentTurn = "ai") ~> ((currentTurn = "player" /\ ~aiThinking) \/ hung)

\* C27 witness: the match was lost during the AI's turn and the turn timer
\* is still pending.
C27_Witness ==
    /\ currentTurn = "ai"
    /\ aiTimer = "turn"
    /\ status = "lost"
    /\ ~hung

\* ----------------------------------------------------------------- C28
\* A step that starts an AI turn: currentTurn becomes "ai".
TurnStarts == currentTurn # "ai" /\ currentTurn' = "ai"

\* A step of the player's own click on (x, y) that uncovers a cell.
PlayerUncovers(x, y) ==
    /\ currentTurn = "player"
    /\ aiTimer = "none"
    /\ PlayerClick(x, y)
    /\ \E d \in Board : isCovered(map, d) /\ ~isCovered(map', d)

\* C28: an AI turn is started only by a reveal made in the player's turn
\* that uncovered a cell and left the match in progress, so not by a reveal
\* that was blocked, hit a bomb, won, found the cell uncovered or was the
\* AI's own.  Within the turn the timers run in one order, think, click,
\* turn, so the AI reveals at most once, and the cell it chooses is covered
\* and unflagged when chosen.
C28_AITurnDiscipline ==
    [][/\ TurnStarts =>
             /\ aiMode # NoMode
             /\ \E c \in Coords : PlayerUncovers(c[1], c[2])
             /\ started' /\ status' = "playing" /\ ~hung'
             /\ aiTimer' = "think" /\ aiThinking'
       /\ (aiTimer' # "none") = (currentTurn' = "ai")
       /\ (aiTimer' = "think" /\ aiTimer # "think") => TurnStarts
       /\ (aiTimer' = "click" /\ aiTimer # "click") =>
             /\ aiTimer = "think"
             /\ map' = map
             /\ Cardinality(aiTarget') = 1
             /\ \A t \in aiTarget' :
                   /\ ~t.detached
                   /\ inMap(map, t.x, t.y)
                   /\ isCovered(map, <<t.x, t.y>>)
                   /\ ~isFlagged(map, <<t.x, t.y>>)
       /\ (\E c \in Coords : AIClick(c[1], c[2])) =>
             (aiTimer = "click" /\ aiTimer' = "turn" /\ aiTarget' = {})
       /\ (aiTimer = "click" /\ aiTimer' # "click") => aiTimer' = "turn"
       /\ (aiTimer = "turn" /\ aiTimer' # "turn") =>
             (aiTimer' = "none" /\ currentTurn' = "player" /\ map' = map)]_vars

\* C28 witness: a reveal of the player has started an AI turn in a match
\* still in progress, and the AI has chosen a covered, unflagged cell of the
\* board, which its pending click will reveal.
C28_Witness ==
    /\ currentTurn = "ai"
    /\ started /\ status = "playing" /\ ~hung
    /\ aiTimer = "click"
    /\ \E t \in aiTarget :
          /\ ~t.detached
          /\ inMap(map, t.x, t.y)
          /\ isCovered(map, <<t.x, t.y>>)
          /\ ~isFlagged(map, <<t.x, t.y>>)
    /\ \E c \in Board : ~isCovered(map, c)

====
